---- MODULE Spec2Model ----
(***************************************************************************)
(* Model of the diff-segment engine of haiku-format-bot:                   *)
(*   formatchecker/llvm.py    parse_diff_segments                          *)
(*   formatchecker/models.py  Segment, FormatSegment, File                 *)
(* A text line is a sequence of tokens (one-character strings, or a word   *)
(* standing for a run of letters), so that prefixing a line, formatting a  *)
(* number and matching a regular expression are things the model does.     *)
(***************************************************************************)
EXTENDS Integers, Sequences, FiniteSets, TLC

(***************************************************************************)
(* Bounds of the model.                                                    *)
(***************************************************************************)
\* longest content snapshot (in lines) handed to a setter of File
MaxLen == 2
\* longest diff stream (in lines) handed to parse_diff_segments
MaxDiffLen == 4

(***************************************************************************)
(* Optional values: Python's None is the empty tuple, a present value v is *)
(* the one-element tuple <<v>>.  A present empty list is <<<<>>>>.         *)
(***************************************************************************)
None == <<>>
Some(v) == <<v>>
IsNone(o) == o = <<>>
Val(o) == o[1]

\* Python's a[lo:hi] for 0 <= lo (0-based, hi exclusive, clipped to len(a))
Slice(a, lo, hi) ==
    LET h == IF hi < Len(a) THEN hi ELSE Len(a)
    IN  IF lo >= h THEN <<>> ELSE [k \in 1..(h - lo) |-> a[lo + k]]

(***************************************************************************)
(* Decimal text <-> integers ('%i' / '{}'.format and int()).               *)
(***************************************************************************)
DigitChars == <<"0", "1", "2", "3", "4", "5", "6", "7", "8", "9">>
IsDigit(t) == \E d \in 1..10 : DigitChars[d] = t
DigitVal(t) == (CHOOSE d \in 1..10 : DigitChars[d] = t) - 1

RECURSIVE FormatInt(_)
FormatInt(n) ==
    IF n < 10 THEN <<DigitChars[n + 1]>>
    ELSE FormatInt(n \div 10) \o <<DigitChars[(n % 10) + 1]>>

RECURSIVE ParseInt(_)
ParseInt(ds) ==
    IF Len(ds) = 1 THEN DigitVal(ds[1])
    ELSE 10 * ParseInt(SubSeq(ds, 1, Len(ds) - 1)) + DigitVal(ds[Len(ds)])

(***************************************************************************)
(* difflib (Python standard library), as used with isjunk=None on inputs   *)
(* shorter than the 200 elements at which autojunk starts.  Indices are    *)
(* 0-based and ranges half-open, as in Python; a[i] of Python is a[i+1].   *)
(***************************************************************************)
\* length of the common run of a[i:ahi] and b[j:bhi]
RECURSIVE RunLen(_, _, _, _, _, _)
RunLen(a, b, i, j, ahi, bhi) ==
    IF i < ahi /\ j < bhi /\ a[i + 1] = b[j + 1]
    THEN 1 + RunLen(a, b, i + 1, j + 1, ahi, bhi)
    ELSE 0

\* SequenceMatcher.find_longest_match: the longest matching block of
\* a[alo:ahi] and b[blo:bhi]; among the longest the one starting earliest
\* in a, and among those the one starting earliest in b; size 0 if none.
find_longest_match(a, b, alo, ahi, blo, bhi) ==
    LET cands == {<<i, j, RunLen(a, b, i, j, ahi, bhi)>> :
                      i \in alo..(ahi - 1), j \in blo..(bhi - 1)}
        hits  == {c \in cands : c[3] > 0}
    IN  IF hits = {} THEN <<alo, blo, 0>>
        ELSE CHOOSE c \in hits :
               \A d \in hits :
                 \/ c[3] > d[3]
                 \/ c[3] = d[3] /\ c[1] < d[1]
                 \/ c[3] = d[3] /\ c[1] = d[1] /\ c[2] <= d[2]

\* SequenceMatcher.get_matching_blocks, before the merge of adjacent blocks
\* and without the terminating (la, lb, 0) sentinel: in increasing order
RECURSIVE MatchingBlocks(_, _, _, _, _, _)
MatchingBlocks(a, b, alo, ahi, blo, bhi) ==
    LET m == find_longest_match(a, b, alo, ahi, blo, bhi)
        i == m[1]
        j == m[2]
        k == m[3]
    IN  IF k = 0 THEN <<>>
        ELSE (IF alo < i /\ blo < j
                THEN MatchingBlocks(a, b, alo, i, blo, j) ELSE <<>>)
             \o <<m>> \o
             (IF i + k < ahi /\ j + k < bhi
                THEN MatchingBlocks(a, b, i + k, ahi, j + k, bhi) ELSE <<>>)

\* the collapse of adjacent equal blocks in get_matching_blocks
RECURSIVE MergeBlocks(_)
MergeBlocks(bs) ==
    IF Len(bs) < 2 THEN bs
    ELSE LET x == bs[1]
             y == bs[2]
         IN  IF x[1] + x[3] = y[1] /\ x[2] + x[3] = y[2]
             THEN MergeBlocks(<<<<x[1], x[2], x[3] + y[3]>>>> \o SubSeq(bs, 3, Len(bs)))
             ELSE <<x>> \o MergeBlocks(Tail(bs))

get_matching_blocks(a, b) ==
    MergeBlocks(MatchingBlocks(a, b, 0, Len(a), 0, Len(b)))
        \o <<<<Len(a), Len(b), 0>>>>

\* SequenceMatcher.get_opcodes: <<tag, i1, i2, j1, j2>>
RECURSIVE OpcodesFrom(_, _, _)
OpcodesFrom(blocks, i, j) ==
    IF blocks = <<>> THEN <<>>
    ELSE LET ai   == blocks[1][1]
             bj   == blocks[1][2]
             size == blocks[1][3]
             tag  == IF i < ai /\ j < bj THEN "replace"
                     ELSE IF i < ai THEN "delete"
                     ELSE IF j < bj THEN "insert"
                     ELSE ""
         IN  (IF tag # "" THEN <<<<tag, i, ai, j, bj>>>> ELSE <<>>)
             \o (IF size > 0 THEN <<<<"equal", ai, ai + size, bj, bj + size>>>> ELSE <<>>)
             \o OpcodesFrom(Tail(blocks), ai + size, bj + size)

get_opcodes(a, b) == OpcodesFrom(get_matching_blocks(a, b), 0, 0)

\* SequenceMatcher.get_grouped_opcodes(0): with no context every equal run
\* ends a group and equal-only groups are dropped, so a group is one
\* replace/delete/insert opcode (between two empty equal markers)
get_grouped_opcodes(a, b) ==
    SelectSeq(get_opcodes(a, b), LAMBDA op : op[1] # "equal")

\* difflib._format_range_unified(start, stop), as tokens
_format_range_unified(start, stop) ==
    LET length == stop - start
    IN  IF length = 1 THEN FormatInt(start + 1)
        ELSE FormatInt(IF length = 0 THEN start ELSE start + 1)
                 \o <<",">> \o FormatInt(length)

\* the lines difflib.unified_diff yields for one group
GroupLines(a, b, op) ==
    <<  <<"@@", " ", "-">> \o _format_range_unified(op[2], op[3])
            \o <<" ", "+">> \o _format_range_unified(op[4], op[5])
            \o <<" ", "@@", "\n">>  >>
    \o (IF op[1] \in {"replace", "delete"}
          THEN [k \in 1..(op[3] - op[2]) |-> <<"-">> \o a[op[2] + k]] ELSE <<>>)
    \o (IF op[1] \in {"replace", "insert"}
          THEN [k \in 1..(op[5] - op[4]) |-> <<"+">> \o b[op[4] + k]] ELSE <<>>)

RECURSIVE AllGroupLines(_, _, _)
AllGroupLines(a, b, groups) ==
    IF groups = <<>> THEN <<>>
    ELSE GroupLines(a, b, groups[1]) \o AllGroupLines(a, b, Tail(groups))

\* difflib.unified_diff(a, b, fromfile=.., tofile=.., n=0): nothing at all
\* when there is no group, else the two file headers and then the groups
unified_diff(a, b, fromfile, tofile) ==
    LET groups == get_grouped_opcodes(a, b)
    IN  IF groups = <<>> THEN <<>>
        ELSE << <<"-", "-", "-", " ">> \o fromfile \o <<"\n">>,
                <<"+", "+", "+", " ">> \o tofile \o <<"\n">> >>
             \o AllGroupLines(a, b, groups)

(***************************************************************************)
(* formatchecker/llvm.py: parse_diff_segments                              *)
(***************************************************************************)
IsSpace(t) == t \in {" ", "\n", "\t"}

\* number of consecutive digit tokens of line from position p on
DigitRun(line, p) ==
    LET ends == {e \in (p - 1)..Len(line) : \A q \in p..e : IsDigit(line[q])}
    IN  (CHOOSE e \in ends : \A f \in ends : f <= e) - p + 1

\* number of consecutive non-whitespace tokens of line from position p on
NonSpaceRun(line, p) ==
    LET ends == {e \in (p - 1)..Len(line) : \A q \in p..e : ~IsSpace(line[q])}
    IN  (CHOOSE e \in ends : \A f \in ends : f <= e) - p + 1

\* re.search(r"^\+\+\+ (.*?/){1}(\S*)", line): None, or Some(group(2)).
\* The lazy (.*?/) stops at the first slash of the line; "." matches no
\* newline; (\S*) takes the non-blank text that follows.
HeaderMatch(line) ==
    LET slashes == {p \in 5..Len(line) :
                       line[p] = "/" /\ \A q \in 5..(p - 1) : line[q] # "\n"}
    IN  IF Len(line) >= 5 /\ SubSeq(line, 1, 4) = <<"+", "+", "+", " ">> /\ slashes # {}
        THEN LET p == CHOOSE s \in slashes : \A r \in slashes : s <= r
             IN  Some(SubSeq(line, p + 1, p + NonSpaceRun(line, p + 1)))
        ELSE None

\* an optional ",<digits>" at position p: <<group or None, next position>>
CountGroup(line, p) ==
    IF p <= Len(line) /\ line[p] = "," /\ DigitRun(line, p + 1) > 0
    THEN <<Some(SubSeq(line, p + 1, p + DigitRun(line, p + 1))), p + 1 + DigitRun(line, p + 1)>>
    ELSE <<None, p>>

\* re.search(r"^@@ -(\d+)(?:,(\d+))? \+(\d+)(?:,(\d+))?", line): None, or
\* Some(<<group(1), group(2), group(3), group(4)>>), groups 2 and 4 optional
HunkMatch(line) ==
    IF ~(Len(line) >= 4 /\ SubSeq(line, 1, 3) = <<"@@", " ", "-">> /\ DigitRun(line, 4) > 0)
    THEN None
    ELSE LET p1 == 4 + DigitRun(line, 4)
             g2 == CountGroup(line, p1)
             p2 == g2[2]
         IN  IF ~(p2 + 2 <= Len(line) /\ line[p2] = " " /\ line[p2 + 1] = "+"
                    /\ DigitRun(line, p2 + 2) > 0)
             THEN None
             ELSE LET p3 == p2 + 2 + DigitRun(line, p2 + 2)
                      g4 == CountGroup(line, p3)
                  IN  Some(<<SubSeq(line, 4, p1 - 1), g2[1],
                             SubSeq(line, p2 + 2, p3 - 1), g4[1]>>)

\* HunkTuple with the "- 1" of the after side forgotten
HunkTuple_OffByOne(m) ==
    LET a_start     == ParseInt(m[1])
        a_count     == IF ~IsNone(m[2]) THEN ParseInt(Val(m[2])) ELSE 1
        a_end       == IF a_count # 0 THEN Some(a_start + a_count - 1) ELSE None
        b_start     == ParseInt(m[3])
        b_count     == IF ~IsNone(m[4]) THEN ParseInt(Val(m[4])) ELSE 1
        b_end       == IF b_count # 0 THEN Some(b_start + b_count) ELSE None
    IN  <<a_start, a_end, b_start, b_end>>

\* lines 57-83: the tuple (a_start, a_end, b_start, b_end) of a matched hunk
HunkTuple(m) ==
    LET a_start     == ParseInt(m[1])
        a_count     == IF ~IsNone(m[2]) THEN ParseInt(Val(m[2])) ELSE 1
        a_end       == IF a_count # 0 THEN Some(a_start + a_count - 1) ELSE None
        b_start     == ParseInt(m[3])
        b_count     == IF ~IsNone(m[4]) THEN ParseInt(Val(m[4])) ELSE 1
        b_end       == IF b_count # 0 THEN Some(b_start + b_count - 1) ELSE None
    IN  <<a_start, a_end, b_start, b_end>>

\* SetDefaultExtend assigning the one-element list instead of extending
SetDefaultExtend_Overwrite(d, key, t) ==
    [k \in DOMAIN d \cup {key} |-> IF k = key THEN <<t>> ELSE d[k]]

\* the empty dict
EmptyDict == [k \in {} |-> <<>>]

\* lines_by_file.setdefault(filename, []).extend([t])
SetDefaultExtend(d, key, t) ==
    IF key \in DOMAIN d THEN [d EXCEPT ![key] = Append(@, t)]
    ELSE [k \in DOMAIN d \cup {key} |-> IF k = key THEN <<t>> ELSE d[k]]

\* ParseLine without "if filename is None: continue": hunks read before any
\* header are filed under the key None
ParseLine_NoSkip(st, line) ==
    LET hm == HeaderMatch(line)
        fn == IF ~IsNone(hm) THEN hm ELSE st.filename
        m  == HunkMatch(line)
    IN  IF IsNone(m) THEN [st EXCEPT !.filename = fn]
        ELSE [filename |-> fn,
              lines_by_file |-> SetDefaultExtend(st.lines_by_file,
                                                 IF IsNone(fn) THEN None ELSE Val(fn),
                                                 HunkTuple(Val(m)))]

\* one turn of the loop "for line in diff" on the state
\* [filename, lines_by_file]
ParseLine(st, line) ==
    LET hm == HeaderMatch(line)
        fn == IF ~IsNone(hm) THEN hm ELSE st.filename
        m  == HunkMatch(line)
    IN  IF IsNone(fn) THEN st
        ELSE IF IsNone(m) THEN [st EXCEPT !.filename = fn]
        ELSE [filename |-> fn,
              lines_by_file |-> SetDefaultExtend(st.lines_by_file, Val(fn), HunkTuple(Val(m)))]

RECURSIVE ParseFrom(_, _)
ParseFrom(st, lines) ==
    IF lines = <<>> THEN st
    ELSE ParseFrom(ParseLine(st, lines[1]), Tail(lines))

\* parse_diff_segments(diff): the dict filename -> list of tuples
parse_diff_segments(lines) ==
    ParseFrom([filename |-> None, lines_by_file |-> EmptyDict], lines).lines_by_file

(***************************************************************************)
(* formatchecker/models.py: Segment, FormatSegment                         *)
(***************************************************************************)
\* SegmentInitError without the test "end < start"
SegmentInitError_NoOrder(start, end) ==
    \/ start < 1
    \/ ~IsNone(end) /\ Val(end) < 1

\* Segment.__init__ raises ValueError
SegmentInitError(start, end) ==
    \/ start < 1
    \/ ~IsNone(end) /\ (Val(end) < 1 \/ Val(end) < start)

Segment(start, end) == [start |-> start, end |-> end]

\* format_range without the test of the end: an absent end prints as nothing
format_range_NoCheck(seg) ==
    [err |-> "ok",
     text |-> FormatInt(seg.start) \o <<":">>
                \o (IF IsNone(seg.end) THEN <<>> ELSE FormatInt(Val(seg.end)))]

\* Segment.format_range: the text "start:end", or ValueError without an end
format_range(seg) ==
    IF IsNone(seg.end) THEN [err |-> "ValueError", text |-> <<>>]
    ELSE [err |-> "ok",
          text |-> FormatInt(seg.start) \o <<":">> \o FormatInt(Val(seg.end))]

\* FormatSegmentInitError with the test of Segment.__init__ only
FormatSegmentInitError_SegmentOnly(start, end, formatted_content) ==
    SegmentInitError(start, end)

\* FormatSegment.__init__ raises ValueError
FormatSegmentInitError(start, end, formatted_content) ==
    \/ IsNone(end) /\ Len(formatted_content) = 0
    \/ SegmentInitError(start, end)

FormatSegment(start, end, formatted_content) ==
    [start |-> start, end |-> end, formatted_content |-> formatted_content]

\* isinstance(o, FormatSegment); every object of the model is a Segment
IsFormatSegment(o) == "formatted_content" \in DOMAIN o

\* reformat_type with the two classifications of a range exchanged
reformat_type_Swapped(seg) ==
    IF IsNone(seg.end) THEN "INSERTION"
    ELSE IF Len(seg.formatted_content) = 0 THEN "MODIFICATION"
    ELSE "DELETION"

\* FormatSegment.reformat_type
reformat_type(seg) ==
    IF IsNone(seg.end) THEN "INSERTION"
    ELSE IF Len(seg.formatted_content) = 0 THEN "DELETION"
    ELSE "MODIFICATION"

\* Segment.__eq__(self, other), other a Segment or a FormatSegment
Segment__eq__(self, other) ==
    self.start = other.start /\ self.end = other.end

\* super(Segment).__eq__(other) in FormatSegment.__eq__: the one-argument
\* super(Segment) is an unbound super object, so this is object.__eq__ of
\* that object and other, which are never the same object: NotImplemented
SuperSegment__eq__(other) == "NotImplemented"

\* bool(v) for v a bool or NotImplemented (true, with a DeprecationWarning,
\* up to Python 3.13)
Truthy(v) == IF v = "NotImplemented" THEN TRUE ELSE v = "True"

\* FormatSegment.__eq__(self, other): "x and y" is y when x is true
FormatSegment__eq__(self, other) ==
    IF IsFormatSegment(other)
    THEN IF Truthy(SuperSegment__eq__(other))
         THEN self.formatted_content = other.formatted_content
         ELSE FALSE
    ELSE FALSE

\* type(o).__eq__(o, other)
Dunder__eq__(o, other) ==
    IF IsFormatSegment(o) THEN FormatSegment__eq__(o, other) ELSE Segment__eq__(o, other)

\* x == y of two objects of the model: the reflected method of y goes first
\* when type(y) is a proper subclass of type(x) that overrides __eq__;
\* neither __eq__ returns NotImplemented, so the first one called decides
Equals(x, y) ==
    IF IsFormatSegment(y) /\ ~IsFormatSegment(x) THEN Dunder__eq__(y, x)
    ELSE Dunder__eq__(x, y)

(***************************************************************************)
(* formatchecker/models.py: File                                           *)
(***************************************************************************)
\* the lines a snapshot can hold: "a\n" and "b\n"
LineA == <<"a", "\n">>
LineB == <<"b", "\n">>
Lines == {LineA, LineB}

\* the values a setter of File can be given: None or a list of lines
ListsUpTo(n) == UNION {[1..k -> Lines] : k \in 0..n}
Contents == {None} \cup {Some(l) : l \in ListsUpTo(MaxLen)}

VARIABLES
    base_contents,       \* File._base_contents
    patch_contents,      \* File._patch_contents
    formatted_contents,  \* File._formatted_contents
    patch_segments,      \* File._patch_segments
    format_segments,     \* File._format_segments
    ret,                 \* the last call on the File: what it was given and
                         \* what the caller got (a value or an exception)
    diff,                \* the lines parse_diff_segments has read so far
    filename,            \* its local filename
    lines_by_file,       \* its local lines_by_file
    pc,                  \* "loop" inside parse_diff_segments, "done" after
    made,                \* the Segment / FormatSegment objects constructed
                         \* last, the most recent first, at most two
    change_dict,         \* the file entries the server lists for the change
    server,              \* the text the server holds: base and patch side
    requests,            \* the content requests get_change has sent
    files,               \* change.files
    run,                 \* position of reformat_change, and how it ended
    review_input         \* the ReviewInput assembled, None before

fileVars == <<base_contents, patch_contents, formatted_contents,
              patch_segments, format_segments, ret>>
parseVars == <<diff, filename, lines_by_file, pc>>
snapVars == <<base_contents, patch_contents, formatted_contents,
              patch_segments, format_segments>>
batchVars == <<change_dict, server, requests, files, run, review_input>>
vars == <<base_contents, patch_contents, formatted_contents,
          patch_segments, format_segments, ret,
          diff, filename, lines_by_file, pc, made,
          change_dict, server, requests, files, run, review_input>>

\* no run of reformat_change: nothing listed, fetched or assembled
BatchIdle ==
    /\ change_dict = <<>>
    /\ server = [base |-> <<>>, patch |-> <<>>]
    /\ requests = <<>>
    /\ files = <<>>
    /\ run = [pc |-> "idle", i |-> 0, err |-> "ok", by |-> "none"]
    /\ review_input = None

\* what a call left with: err is "ok" or the exception raised
Outcome(op, arg, err, val) == [op |-> op, arg |-> arg, err |-> err, val |-> val]

\* parse_diff_segments(difflib.unified_diff(a, b, ..., n=0))['file']:
\* Some(list of tuples), or None where the lookup raises KeyError
DiffSegments(a, b, fromfile, tofile) ==
    LET d == parse_diff_segments(unified_diff(a, b, fromfile, tofile))
    IN  IF <<"file">> \in DOMAIN d THEN Some(d[<<"file">>]) ELSE None

\* PatchLoop without the skip of the hunks that have no b_end
RECURSIVE PatchLoop_KeepDeletions(_, _)
PatchLoop_KeepDeletions(segments, acc) ==
    IF segments = <<>> THEN [segs |-> acc, err |-> "ok"]
    ELSE LET b_start == segments[1][3]
             b_end   == segments[1][4]
         IN  IF SegmentInitError(b_start, b_end)
             THEN [segs |-> acc, err |-> "ValueError"]
             ELSE PatchLoop_KeepDeletions(Tail(segments),
                                          Append(acc, Segment(b_start, b_end)))

\* the loop of _calculate_patch_segments over the tuples, from the list acc
RECURSIVE PatchLoop(_, _)
PatchLoop(segments, acc) ==
    IF segments = <<>> THEN [segs |-> acc, err |-> "ok"]
    ELSE LET b_start == segments[1][3]
             b_end   == segments[1][4]
         IN  IF IsNone(b_end) THEN PatchLoop(Tail(segments), acc)
             ELSE IF SegmentInitError(b_start, b_end)
                  THEN [segs |-> acc, err |-> "ValueError"]
             ELSE PatchLoop(Tail(segments), Append(acc, Segment(b_start, b_end)))

\* File._calculate_patch_segments: the list it leaves in _patch_segments
\* and the exception it leaves with, if any
_calculate_patch_segments(base, patch) ==
    IF IsNone(base) \/ IsNone(patch) THEN [segs |-> <<>>, err |-> "ok"]
    ELSE LET segments == DiffSegments(Val(base), Val(patch),
                                      <<"base", "/", "file">>, <<"patch", "/", "file">>)
         IN  IF IsNone(segments) THEN [segs |-> <<>>, err |-> "ok"]
             ELSE PatchLoop(Val(segments), <<>>)

\* the loop of _calculate_formatted_segments
RECURSIVE FormatLoop(_, _, _)
FormatLoop(segments, formatted, acc) ==
    IF segments = <<>> THEN [segs |-> acc, err |-> "ok"]
    ELSE LET a_start == segments[1][1]
             a_end   == segments[1][2]
             b_start == segments[1][3]
             b_end   == segments[1][4]
             content == IF IsNone(b_end) \/ Val(b_end) = 0 THEN <<>>
                        ELSE Slice(formatted, b_start - 1, Val(b_end))
         IN  IF FormatSegmentInitError(a_start, a_end, content)
             THEN [segs |-> acc, err |-> "ValueError"]
             ELSE FormatLoop(Tail(segments), formatted,
                             Append(acc, FormatSegment(a_start, a_end, content)))

\* _calculate_formatted_segments taking the replacement lines from
\* patch_contents
_calculate_formatted_segments_SlicePatch(patch, formatted) ==
    IF IsNone(patch) \/ IsNone(formatted) THEN [segs |-> <<>>, err |-> "ok"]
    ELSE LET segments == DiffSegments(Val(patch), Val(formatted),
                                      <<"patch", "/", "file">>, <<"formatted", "/", "file">>)
         IN  IF IsNone(segments) THEN [segs |-> <<>>, err |-> "KeyError"]
             ELSE FormatLoop(Val(segments), Val(patch), <<>>)

\* File._calculate_formatted_segments
_calculate_formatted_segments(patch, formatted) ==
    IF IsNone(patch) \/ IsNone(formatted) THEN [segs |-> <<>>, err |-> "ok"]
    ELSE LET segments == DiffSegments(Val(patch), Val(formatted),
                                      <<"patch", "/", "file">>, <<"formatted", "/", "file">>)
         IN  IF IsNone(segments) THEN [segs |-> <<>>, err |-> "KeyError"]
             ELSE FormatLoop(Val(segments), Val(formatted), <<>>)

\* _calculate_patch_segments and _calculate_formatted_segments on every
\* pair of values of the model, evaluated once
PatchSegmentsOf ==
    [base \in Contents, patch \in Contents |-> _calculate_patch_segments(base, patch)] @@ <<>>
FormatSegmentsOf ==
    [patch \in Contents, formatted \in Contents |->
        _calculate_formatted_segments(patch, formatted)] @@ <<>>

\* File.__init__(filename, base, patch)
FileInit(base, patch) ==
    /\ base_contents = base
    /\ patch_contents = patch
    /\ formatted_contents = None
    /\ format_segments = <<>>
    /\ patch_segments = PatchSegmentsOf[base, patch].segs
    /\ ret = Outcome("File", None, PatchSegmentsOf[base, patch].err, <<>>)

\* setBaseContents also dropping what was derived from the old snapshots
setBaseContents_DropFormatted(base) ==
    /\ base_contents' = base
    /\ patch_segments' = PatchSegmentsOf[base, patch_contents].segs
    /\ formatted_contents' = None
    /\ format_segments' = <<>>
    /\ ret' = Outcome("setBaseContents", base,
                      PatchSegmentsOf[base, patch_contents].err, <<>>)
    /\ UNCHANGED patch_contents

\* File.base_contents = base
setBaseContents(base) ==
    /\ base_contents' = base
    /\ patch_segments' = PatchSegmentsOf[base, patch_contents].segs
    /\ ret' = Outcome("setBaseContents", base,
                      PatchSegmentsOf[base, patch_contents].err, <<>>)
    /\ UNCHANGED <<patch_contents, formatted_contents, format_segments>>

\* setPatchContents without the call of _calculate_patch_segments
setPatchContents_NoRecalc(patch) ==
    /\ patch_contents' = patch
    /\ ret' = Outcome("setPatchContents", patch, "ok", <<>>)
    /\ UNCHANGED <<base_contents, formatted_contents, format_segments, patch_segments>>

\* File.patch_contents = patch
setPatchContents(patch) ==
    /\ patch_contents' = patch
    /\ patch_segments' = PatchSegmentsOf[base_contents, patch].segs
    /\ ret' = Outcome("setPatchContents", patch,
                      PatchSegmentsOf[base_contents, patch].err, <<>>)
    /\ UNCHANGED <<base_contents, formatted_contents, format_segments>>

\* setFormattedContents whose recomputation does not clear the old list
setFormattedContents_NoClear(contents) ==
    /\ formatted_contents' =
           IF patch_contents # contents THEN contents ELSE formatted_contents
    /\ format_segments' =
           format_segments \o FormatSegmentsOf[patch_contents, formatted_contents'].segs
    /\ ret' = Outcome("setFormattedContents", contents,
                      FormatSegmentsOf[patch_contents, formatted_contents'].err, <<>>)
    /\ UNCHANGED <<base_contents, patch_contents, patch_segments>>

\* File.formatted_contents = contents
setFormattedContents(contents) ==
    /\ formatted_contents' =
           IF patch_contents # contents THEN contents ELSE formatted_contents
    /\ format_segments' = FormatSegmentsOf[patch_contents, formatted_contents'].segs
    /\ ret' = Outcome("setFormattedContents", contents,
                      FormatSegmentsOf[patch_contents, formatted_contents'].err, <<>>)
    /\ UNCHANGED <<base_contents, patch_contents, patch_segments>>

\* getPatchSegments testing the snapshots for truth, so that an empty list
\* counts as absent
getPatchSegments_Truthy ==
    /\ ret' = IF base_contents \in {None, Some(<<>>)} \/ patch_contents \in {None, Some(<<>>)}
              THEN Outcome("getPatchSegments", None, "RuntimeError", <<>>)
              ELSE Outcome("getPatchSegments", None, "ok", patch_segments)
    /\ UNCHANGED <<base_contents, patch_contents, formatted_contents,
                   patch_segments, format_segments>>

\* reading File.patch_segments
getPatchSegments ==
    /\ ret' = IF IsNone(base_contents) \/ IsNone(patch_contents)
              THEN Outcome("getPatchSegments", None, "RuntimeError", <<>>)
              ELSE Outcome("getPatchSegments", None, "ok", patch_segments)
    /\ UNCHANGED <<base_contents, patch_contents, formatted_contents,
                   patch_segments, format_segments>>

\* getFormatSegments testing formatted_contents only
getFormatSegments_FormattedOnly ==
    /\ ret' = IF IsNone(formatted_contents)
              THEN Outcome("getFormatSegments", None, "RuntimeError", <<>>)
              ELSE Outcome("getFormatSegments", None, "ok", format_segments)
    /\ UNCHANGED <<base_contents, patch_contents, formatted_contents,
                   patch_segments, format_segments>>

\* reading File.format_segments
getFormatSegments ==
    /\ ret' = IF IsNone(patch_contents) \/ IsNone(formatted_contents)
              THEN Outcome("getFormatSegments", None, "RuntimeError", <<>>)
              ELSE Outcome("getFormatSegments", None, "ok", format_segments)
    /\ UNCHANGED <<base_contents, patch_contents, formatted_contents,
                   patch_segments, format_segments>>

\* parse_diff_segments before its first line
ParseInit ==
    /\ diff = <<>>
    /\ filename = None
    /\ lines_by_file = EmptyDict
    /\ pc = "loop"

Init ==
    /\ \E base \in Contents, patch \in Contents : FileInit(base, patch)
    /\ ParseInit
    /\ made = <<>>
    /\ BatchIdle

Next ==
    \/ \E base \in Contents : setBaseContents(base) /\ UNCHANGED <<parseVars, made, batchVars>>
    \/ \E patch \in Contents : setPatchContents(patch) /\ UNCHANGED <<parseVars, made, batchVars>>
    \/ \E contents \in Contents : setFormattedContents(contents) /\ UNCHANGED <<parseVars, made, batchVars>>
    \/ getPatchSegments /\ UNCHANGED <<parseVars, made, batchVars>>
    \/ getFormatSegments /\ UNCHANGED <<parseVars, made, batchVars>>

\* the calls on one File, in any order
Spec == Init /\ [][Next]_vars

(***************************************************************************)
(* parse_diff_segments reading a diff stream line by line.                 *)
(***************************************************************************)
\* the text of "@@ -a_start[,a_count] +b_start[,b_count] @@" for
\* h = <<a_start, a_count or None, b_start, b_count or None>>
HunkLine(h) ==
    <<"@@", " ", "-">> \o FormatInt(h[1])
        \o (IF IsNone(h[2]) THEN <<>> ELSE <<",">> \o FormatInt(Val(h[2])))
        \o <<" ", "+">> \o FormatInt(h[3])
        \o (IF IsNone(h[4]) THEN <<>> ELSE <<",">> \o FormatInt(Val(h[4])))
        \o <<" ", "@@", "\n">>

\* the hunk headers of the streams of the model
HunkShapes ==
    { <<10, Some(5), 12, Some(5)>>,
      <<12, None, 13, Some(0)>>,
      <<4, Some(0), 3, None>>,
      <<42, Some(0), 42, Some(1)>>,
      <<1, None, 1, None>>,
      <<107, Some(2), 111, None>>,
      <<0, Some(0), 1, Some(2)>>,
      <<7, Some(0), 6, Some(0)>> }

\* a path as its segments, joined by slashes
RECURSIVE JoinPath(_)
JoinPath(path) ==
    IF Len(path) = 1 THEN <<path[1]>>
    ELSE <<path[1], "/">> \o JoinPath(Tail(path))

\* the text of "+++ <path><rest>"
HeaderLine(path, rest) == <<"+", "+", "+", " ">> \o JoinPath(path) \o rest

\* the after-file headers of the streams of the model, as <<path, rest>>
HeaderShapes ==
    { << <<"b", "Jamfile">>, <<"\n">> >>,
      << <<"b", "src", "Jamrules">>, <<"\t", "date", "\n">> >> }

HeaderLines == {HeaderLine(h[1], h[2]) : h \in HeaderShapes}
HunkLines == {HunkLine(h) : h \in HunkShapes}

\* lines that are neither: a before-file header, a "+++" line without a
\* path prefix, a context line
OtherLines ==
    { <<"-", "-", "-", " ", "a", "/", "Jamfile", "\n">>,
      <<"+", "+", "+", " ", "Jamfile", "\n">>,
      <<" ", "x", "\n">> }

DiffLines == HeaderLines \cup HunkLines \cup OtherLines

\* one turn of "for line in diff": the iterator yields line
ParseStep(line) ==
    /\ pc = "loop"
    /\ Len(diff) < MaxDiffLen
    /\ diff' = Append(diff, line)
    /\ filename' = ParseLine([filename |-> filename, lines_by_file |-> lines_by_file],
                             line).filename
    /\ lines_by_file' = ParseLine([filename |-> filename, lines_by_file |-> lines_by_file],
                                  line).lines_by_file
    /\ pc' = pc

\* the iterator is exhausted: return lines_by_file
ParseReturn ==
    /\ pc = "loop"
    /\ pc' = "done"
    /\ UNCHANGED <<diff, filename, lines_by_file>>

InitParse ==
    /\ FileInit(None, None)
    /\ ParseInit
    /\ made = <<>>
    /\ BatchIdle

NextParse ==
    \/ \E line \in DiffLines : ParseStep(line) /\ UNCHANGED <<fileVars, made, batchVars>>
    \/ ParseReturn /\ UNCHANGED <<fileVars, made, batchVars>>

\* one call of parse_diff_segments on any stream of the model
SpecParse == InitParse /\ [][NextParse]_vars

(***************************************************************************)
(* Segment and FormatSegment objects: construction and the calls on them.  *)
(***************************************************************************)
\* largest small line number handed to a constructor
MaxLine == 2
\* a line number of two digits
BigLine == 15

\* the values a constructor can be given
SegStarts == (0..MaxLine) \cup {BigLine}
SegEnds == {None} \cup {Some(n) : n \in SegStarts}
SegContents == {<<>>, <<LineA>>, <<LineB>>}

\* made with the object o constructed last
Remember(o) == IF made = <<>> THEN <<o>> ELSE <<o, made[1]>>

\* Segment(start, end)
newSegment(start, end) ==
    /\ IF SegmentInitError(start, end)
       THEN /\ ret' = Outcome("Segment", <<start, end>>, "ValueError", <<>>)
            /\ made' = made
       ELSE /\ ret' = Outcome("Segment", <<start, end>>, "ok", Segment(start, end))
            /\ made' = Remember(Segment(start, end))
    /\ UNCHANGED snapVars

\* FormatSegment(start, end, formatted_content)
newFormatSegment(start, end, formatted_content) ==
    /\ IF FormatSegmentInitError(start, end, formatted_content)
       THEN /\ ret' = Outcome("FormatSegment", <<start, end, formatted_content>>,
                              "ValueError", <<>>)
            /\ made' = made
       ELSE /\ ret' = Outcome("FormatSegment", <<start, end, formatted_content>>, "ok",
                              FormatSegment(start, end, formatted_content))
            /\ made' = Remember(FormatSegment(start, end, formatted_content))
    /\ UNCHANGED snapVars

\* made[1].format_range()
callFormatRange ==
    /\ made # <<>>
    /\ ret' = Outcome("format_range", made[1],
                      format_range(made[1]).err, format_range(made[1]).text)
    /\ UNCHANGED <<snapVars, made>>

\* made[1].reformat_type, made[1] a FormatSegment
getReformatType ==
    /\ made # <<>>
    /\ IsFormatSegment(made[1])
    /\ ret' = Outcome("reformat_type", made[1], "ok", reformat_type(made[1]))
    /\ UNCHANGED <<snapVars, made>>

\* made[1] == made[2]
compare ==
    /\ Len(made) = 2
    /\ ret' = Outcome("eq", made, "ok", Equals(made[1], made[2]))
    /\ UNCHANGED <<snapVars, made>>

InitSeg ==
    /\ FileInit(None, None)
    /\ ParseInit
    /\ made = <<>>
    /\ BatchIdle

NextSeg ==
    \/ \E start \in SegStarts, end \in SegEnds :
          newSegment(start, end) /\ UNCHANGED <<parseVars, batchVars>>
    \/ \E start \in SegStarts, end \in SegEnds, content \in SegContents :
          newFormatSegment(start, end, content) /\ UNCHANGED <<parseVars, batchVars>>
    \/ callFormatRange /\ UNCHANGED <<parseVars, batchVars>>
    \/ getReformatType /\ UNCHANGED <<parseVars, batchVars>>
    \/ compare /\ UNCHANGED <<parseVars, batchVars>>

\* constructions of segments and calls on the last ones, in any order
SpecSeg == InitSeg /\ [][NextSeg]_vars

(***************************************************************************)
(* File(filename, base, patch) on snapshots that may hold a line which the *)
(* diff turns into the text of a file header.                              *)
(***************************************************************************)
\* longest base snapshot (in lines) handed to the constructor; the patch
\* snapshot may be one line longer
MaxBaseLen == 3

\* the line "++ d/o": prefixed with "+" by the diff it reads "+++ d/o"
LinePlus == <<"+", "+", " ", "d", "/", "o", "\n">>

\* the snapshots the constructor can be given
DiffBases == UNION {[1..k -> Lines] : k \in 0..MaxBaseLen}
DiffPatches == UNION {[1..k -> Lines \cup {LinePlus}] : k \in 0..(MaxBaseLen + 1)}

\* File(filename, base, patch) on the arguments held in ret
newFile ==
    /\ ret.op = "args"
    /\ base_contents' = ret.arg[1]
    /\ patch_contents' = ret.arg[2]
    /\ formatted_contents' = None
    /\ format_segments' = <<>>
    /\ patch_segments' = _calculate_patch_segments(ret.arg[1], ret.arg[2]).segs
    /\ ret' = Outcome("File", ret.arg,
                      _calculate_patch_segments(ret.arg[1], ret.arg[2]).err, <<>>)

\* the arguments of the constructor are chosen, no File exists yet
InitDiff ==
    /\ \E base \in DiffBases, patch \in DiffPatches :
          ret = Outcome("args", <<Some(base), Some(patch)>>, "ok", <<>>)
    /\ base_contents = None
    /\ patch_contents = None
    /\ formatted_contents = None
    /\ patch_segments = <<>>
    /\ format_segments = <<>>
    /\ ParseInit
    /\ made = <<>>
    /\ BatchIdle

NextDiff ==
    \/ newFile /\ UNCHANGED <<parseVars, made, batchVars>>
    \/ (ret.op # "args" /\ getPatchSegments) /\ UNCHANGED <<parseVars, made, batchVars>>

\* one File constructed from any two snapshots of the model, then queried
SpecDiff == InitDiff /\ [][NextDiff]_vars

(***************************************************************************)
(* reformat_change: the files of a change are fetched, the patched ones    *)
(* are handed to the formatter, and the review is assembled.               *)
(***************************************************************************)
\* most file entries a change lists
MaxFiles == 2

\* the file names the server can list, split at "/" and "."
FileNames == {<<"src", "/", "x", ".", "cpp">>, <<"y", ".", "H">>, <<"z", ".", "txt">>}
\* the path a renamed or copied file had before
OldPaths == {<<"old", "/", "x", ".", "cpp">>}

\* the statuses get_change accepts, and two it does not
SupportedStatuses == {"M", "D", "A", "R", "C", "W"}
UnsupportedStatuses == {"X", ""}
\* change_dict[filename].get("status"): the server leaves it out for "M"
StatusValues == {None} \cup {Some(st) : st \in SupportedStatuses \cup UnsupportedStatuses}

\* a file entry: old_path comes with the statuses "R" and "C" only
Entries ==
    {[filename |-> name, status |-> status, old_path |-> old] :
        name \in FileNames, status \in StatusValues, old \in {None} \cup {Some(o) : o \in OldPaths}}
FileEntries ==
    {e \in Entries : ~IsNone(e.old_path) <=> e.status \in {Some("R"), Some("C")}}

\* the listings of a change: file names are the keys of a dict
ChangeDicts ==
    {d \in UNION {[1..k -> FileEntries] : k \in 0..MaxFiles} :
        \A i, j \in DOMAIN d : i # j => d[i].filename # d[j].filename}

\* the texts a content request is answered with, of at most MaxLen lines
\* each
ServerTexts == {<<>>, <<"a", "\n">>, <<"a", "\n", "b", "\n">>}

\* StringIO(text).readlines(): the text cut after each "\n"
RECURSIVE ReadLinesFrom(_, _, _)
ReadLinesFrom(text, line, acc) ==
    IF text = <<>> THEN (IF line = <<>> THEN acc ELSE Append(acc, line))
    ELSE IF text[1] = "\n"
         THEN ReadLinesFrom(Tail(text), <<>>, Append(acc, Append(line, "\n")))
         ELSE ReadLinesFrom(Tail(text), Append(line, text[1]), acc)
readlines(text) == ReadLinesFrom(text, <<>>, <<>>)

\* urllib.parse.quote(name, safe=''): the reserved characters percent-encoded
QuoteToken(t) ==
    IF t = "/" THEN "%2F" ELSE IF t = " " THEN "%20" ELSE IF t = "+" THEN "%2B" ELSE t
quote(name) == [k \in DOMAIN name |-> QuoteToken(name[k])]

\* "changes/%s/revisions/%s/" % (change_id, revision_id)
current_revision_url == <<"changes", "/", "I1", "/", "revisions", "/", "current", "/">>

\* urljoin(current_revision_url, "files/%s/content" % quote(name, safe=''))
ContentUrl(name) ==
    current_revision_url \o <<"files", "/">> \o quote(name) \o <<"/", "content">>

\* a request _get has sent: params is None or {"parent": "1"}
Request(url, params) == [url |-> url, params |-> params]

\* the File object whose _calculate_patch_segments gave calc, and the
\* exception if it raised
FileWith(name, base, patch, calc) ==
    [file |-> [filename |-> name,
               base_contents |-> base,
               patch_contents |-> patch,
               formatted_contents |-> None,
               patch_segments |-> calc.segs,
               format_segments |-> <<>>],
     err |-> calc.err]

\* File(filename, base, patch)
File(name, base, patch) == FileWith(name, base, patch, PatchSegmentsOf[base, patch])

\* the state get_change is in after the pass that constructed f and sent
\* the requests sent
Fetched(st, f, sent) ==
    [files |-> IF f.err = "ok" THEN Append(st.files, f.file) ELSE st.files,
     requests |-> st.requests \o sent,
     err |-> f.err]

\* FetchEntry asking for the base under the path of the patch
FetchEntry_SameUrl(e, st) ==
    LET status == IF IsNone(e.status) THEN "M" ELSE Val(e.status)
        file_get_url == ContentUrl(e.filename)
        in_RC == status \in {"", "R", "C", "RC"}
    IN  IF in_RC /\ IsNone(e.old_path) THEN [st EXCEPT !.err = "KeyError"]
        ELSE IF status \notin SupportedStatuses THEN [st EXCEPT !.err = "RuntimeError"]
        ELSE LET old_file_get_url == file_get_url
                 patch_request == IF status # "D" THEN <<Request(file_get_url, None)>> ELSE <<>>
                 patch_content == IF status # "D" THEN Some(readlines(server.patch)) ELSE None
                 base_request == IF status # "A"
                                 THEN <<Request(old_file_get_url, Some("parent=1"))>> ELSE <<>>
                 base_content == IF status # "A" THEN Some(readlines(server.base)) ELSE None
             IN  Fetched(st, File(e.filename, base_content, patch_content),
                         patch_request \o base_request)

\* one pass of the loop of get_change, on the entry e: st holds the files
\* appended and the requests sent so far
FetchEntry(e, st) ==
    LET status == IF IsNone(e.status) THEN "M" ELSE Val(e.status)
        file_get_url == ContentUrl(e.filename)
        in_RC == status \in {"", "R", "C", "RC"}
    IN  IF in_RC /\ IsNone(e.old_path) THEN [st EXCEPT !.err = "KeyError"]
        ELSE IF status \notin SupportedStatuses THEN [st EXCEPT !.err = "RuntimeError"]
        ELSE LET old_file_get_url == IF in_RC THEN ContentUrl(Val(e.old_path))
                                     ELSE file_get_url
                 patch_request == IF status # "D" THEN <<Request(file_get_url, None)>> ELSE <<>>
                 patch_content == IF status # "D" THEN Some(readlines(server.patch)) ELSE None
                 base_request == IF status # "A"
                                 THEN <<Request(old_file_get_url, Some("parent=1"))>> ELSE <<>>
                 base_content == IF status # "A" THEN Some(readlines(server.base)) ELSE None
             IN  Fetched(st, File(e.filename, base_content, patch_content),
                         patch_request \o base_request)

\* the loop of get_change over the entries, left at the first exception
RECURSIVE FetchAll(_, _)
FetchAll(entries, st) ==
    IF entries = <<>> \/ st.err # "ok" THEN st
    ELSE FetchAll(Tail(entries), FetchEntry(entries[1], st))

\* Context.get_change(change_id, revision_id), every request answered
get_change(entries) ==
    FetchAll(entries, [files |-> <<>>, requests |-> <<>>, err |-> "ok"])

\* the alternatives of EXTENSION_PATTERN
Extensions ==
    {"cpp", "cc", "c++", "cxx", "cppm", "ccm", "cxxm", "c++m", "c", "cl", "h", "hh",
     "hpp", "hxx", "m", "mm", "inc", "js", "ts", "proto", "protodevel", "java", "cs",
     "json", "v", "sv", "vh", "svh"}

\* re.IGNORECASE on the name parts of the model
Lower(t) == IF t = "H" THEN "h" ELSE IF t = "CPP" THEN "cpp" ELSE t

\* re.match(EXTENSION_PATTERN, name, re.IGNORECASE): "." and an alternative
\* end the name
ExtensionMatch(name) ==
    /\ Len(name) >= 2
    /\ name[Len(name) - 1] = "."
    /\ Lower(name[Len(name)]) \in Extensions

\* run_clang_format(contents, segments): the reformatted content, or the
\* failure of the formatter
run_clang_format(contents, segments) ==
    {[err |-> "ok", val |-> Some(l)] : l \in ListsUpTo(MaxLen)}
        \cup {[err |-> "FormatterInvocationError", val |-> None]}

\* the value the setter of formatted_contents stores
Stored(f, contents) ==
    IF f.patch_contents # contents THEN contents ELSE f.formatted_contents

\* the file after the setter stored a value and
\* _calculate_formatted_segments gave calc, and the exception if it raised
Recalculated(f, stored, calc) ==
    [file |-> [f EXCEPT !.formatted_contents = stored, !.format_segments = calc.segs],
     err |-> calc.err]

\* f.formatted_contents = contents, on a file of the change
WithFormattedContents(f, contents) ==
    Recalculated(f, Stored(f, contents),
                 FormatSegmentsOf[f.patch_contents, Stored(f, contents)])

\* [segment.format_range() for segment in f.patch_segments], None where a
\* call raises
FormatRanges(segs) ==
    IF \E k \in DOMAIN segs : format_range(segs[k]).err # "ok" THEN None
    ELSE Some([k \in DOMAIN segs |-> format_range(segs[k]).text])

\* where reformat_change stands: pc is "fetch", "loop" at file i, "review",
\* "done", or "raised" with the exception err raised by the call by
At(p, i) == [pc |-> p, i |-> i, err |-> "ok", by |-> "none"]
Raised(i, err, by) == [pc |-> "raised", i |-> i, err |-> err, by |-> by]
AfterFile(i) == IF i < Len(files) THEN At("loop", i + 1) ELSE At("review", 0)

\* change = ctx.get_change(change_id, revision_id)
getChange ==
    /\ run.pc = "fetch"
    /\ \E got \in {get_change(change_dict)} :
           /\ requests' = got.requests
           /\ files' = IF got.err = "ok" THEN got.files ELSE <<>>
           /\ run' = IF got.err # "ok" THEN Raised(0, got.err, "get_change")
                     ELSE IF got.files = <<>> THEN At("review", 0)
                     ELSE At("loop", 1)
    /\ UNCHANGED <<change_dict, server, review_input>>

\* one pass of the loop of reformat_change, on change.files[run.i]
formatFile ==
    /\ run.pc = "loop"
    /\ LET i == run.i
           f == files[i]
       IN  IF ~ExtensionMatch(f.filename) \/ IsNone(f.patch_contents)
           THEN run' = AfterFile(i) /\ UNCHANGED files
           ELSE IF IsNone(f.base_contents)
           THEN run' = Raised(i, "RuntimeError", "patch_segments") /\ UNCHANGED files
           ELSE IF Len(f.patch_segments) = 0
           THEN run' = AfterFile(i) /\ UNCHANGED files
           ELSE IF IsNone(FormatRanges(f.patch_segments))
           THEN run' = Raised(i, "ValueError", "format_range") /\ UNCHANGED files
           ELSE \E out \in run_clang_format(f.patch_contents,
                                            Val(FormatRanges(f.patch_segments))) :
                  IF out.err # "ok"
                  THEN run' = Raised(i, out.err, "run_clang_format") /\ UNCHANGED files
                  ELSE \E set \in {WithFormattedContents(f, out.val)} :
                           /\ files' = [files EXCEPT ![i] = set.file]
                           /\ run' = IF set.err = "ok" THEN AfterFile(i)
                                     ELSE Raised(i, set.err, "formatted_contents")
    /\ UNCHANGED <<change_dict, server, requests, review_input>>

\* "".join(lines)
RECURSIVE Join(_)
Join(lines) == IF lines = <<>> THEN <<>> ELSE lines[1] \o Join(Tail(lines))

CommentRange(start_line, start_character, end_line, end_character) ==
    [start_line |-> start_line, start_character |-> start_character,
     end_line |-> end_line, end_character |-> end_character]
CommentInput(message, range) == [message |-> message, range |-> range]
ReviewInput(message, comments) == [message |-> message, comments |-> comments]

\* the message of a comment: operation is unbound for a DELETION (the grave
\* accents of the texts are written as apostrophes)
CommentMessage(segment, operation) ==
    IF reformat_type(segment) = "DELETION"
    THEN <<"Suggestion from 'haiku-format' is to remove this line/these lines.">>
    ELSE <<"Suggestion from 'haiku-format' (", Val(operation), "):\n'''c++\n">>
            \o Join(segment.formatted_content) \o <<"'''">>

\* CommentFor with the end of the range moved to the next line
CommentFor_EndPlusOne(segment) ==
    LET type == reformat_type(segment)
        end == IF type = "INSERTION" THEN segment.start ELSE Val(segment.end)
        operation == IF type = "INSERTION" THEN Some("insert after")
                     ELSE IF type = "MODIFICATION" THEN Some("change")
                     ELSE None
    IN  CommentInput(CommentMessage(segment, operation),
                     CommentRange(segment.start, 0, end + 1, 0))

\* the body of the loop of _change_to_review_input over the segments: the
\* comment made for one FormatSegment
CommentFor(segment) ==
    LET type == reformat_type(segment)
        end == IF type = "INSERTION" THEN segment.start ELSE Val(segment.end)
        operation == IF type = "INSERTION" THEN Some("insert after")
                     ELSE IF type = "MODIFICATION" THEN Some("change")
                     ELSE None
    IN  CommentInput(CommentMessage(segment, operation),
                     CommentRange(segment.start, 0, end, 0))

\* comments.setdefault(filename, []).extend([comment]) for each segment
RECURSIVE ExtendWith(_, _, _)
ExtendWith(comments, name, segs) ==
    IF segs = <<>> THEN comments
    ELSE ExtendWith(SetDefaultExtend(comments, name, CommentFor(segs[1])),
                    name, Tail(segs))

\* the loop of _change_to_review_input over the files
RECURSIVE CommentsFrom(_, _)
CommentsFrom(fs, comments) ==
    IF fs = <<>> THEN [err |-> "ok", comments |-> comments]
    ELSE IF IsNone(fs[1].formatted_contents) THEN CommentsFrom(Tail(fs), comments)
    ELSE IF IsNone(fs[1].patch_contents)
         THEN [err |-> "RuntimeError", comments |-> comments]
    ELSE CommentsFrom(Tail(fs),
                      ExtendWith(comments, fs[1].filename, fs[1].format_segments))

\* the messages of the review, the second by its opening sentence
NoChangesMessage ==
    "Experimental 'haiku-format' bot: no formatting changes suggested for this commit."
SomeChangesMessage ==
    "Experimental 'haiku-format' bot: some formatting changes suggested."

\* _change_to_review_input(change)
_change_to_review_input(fs) ==
    LET made_comments == CommentsFrom(fs, EmptyDict)
        message == IF DOMAIN made_comments.comments = {} THEN NoChangesMessage
                   ELSE SomeChangesMessage
    IN  [err |-> made_comments.err,
         val |-> ReviewInput(message, made_comments.comments)]

\* review_input = _change_to_review_input(change), then written or posted
assemble ==
    /\ run.pc = "review"
    /\ LET made_review == _change_to_review_input(files)
       IN  /\ review_input' = IF made_review.err = "ok" THEN Some(made_review.val) ELSE None
           /\ run' = IF made_review.err = "ok" THEN At("done", 0)
                     ELSE Raised(0, made_review.err, "format_segments")
    /\ UNCHANGED <<change_dict, server, requests, files>>

\* reformat_change is called on a change the server lists
InitBatch ==
    /\ change_dict \in ChangeDicts
    /\ \E base \in ServerTexts, patch \in ServerTexts :
          server = [base |-> base, patch |-> patch]
    /\ requests = <<>>
    /\ files = <<>>
    /\ run = At("fetch", 0)
    /\ review_input = None
    /\ FileInit(None, None)
    /\ ParseInit
    /\ made = <<>>

NextBatch ==
    \/ getChange /\ UNCHANGED <<fileVars, parseVars, made>>
    \/ formatFile /\ UNCHANGED <<fileVars, parseVars, made>>
    \/ assemble /\ UNCHANGED <<fileVars, parseVars, made>>

\* one run of reformat_change on any change of the model
SpecBatch == InitBatch /\ [][NextBatch]_vars

(***************************************************************************)
(* Properties of File (checked under Spec).                                *)
(***************************************************************************)
BothPresent(x, y) == ~IsNone(x) /\ ~IsNone(y)

\* C1: whenever patch_contents and formatted_contents are both present, the
\* stored format_segments are what recomputing them from the current
\* patch_contents and formatted_contents gives: no setter leaves them stale.
C1_FormatSegmentsNeverStale ==
    BothPresent(patch_contents, formatted_contents) =>
        format_segments = FormatSegmentsOf[patch_contents, formatted_contents].segs

\* C2: after construction and after every setter call the stored
\* patch_segments are what recomputing them from the current base_contents
\* and patch_contents gives, and they are empty when either is absent.
C2_PatchSegmentsFresh ==
    /\ patch_segments = PatchSegmentsOf[base_contents, patch_contents].segs
    /\ ~BothPresent(base_contents, patch_contents) => patch_segments = <<>>
    /\ ret.op \in {"File", "setBaseContents", "setPatchContents"} => ret.err = "ok"
    /\ ret.op = "setBaseContents" => base_contents = ret.arg
    /\ ret.op = "setPatchContents" => patch_contents = ret.arg

\* a setter has replaced a snapshot and segments came out of the recomputation
C2_Witness ==
    /\ ret.op = "setPatchContents"
    /\ ret.arg = patch_contents
    /\ Len(patch_segments) > 0

\* C3: after setFormattedContents was called with a present value equal,
\* line for line, to the current patch_contents, formatted_contents reads
\* as absent (and so the format_segments query fails).
C3_EqualToPatchStoresAbsent ==
    (ret.op = "setFormattedContents" /\ ~IsNone(ret.arg) /\ ret.arg = patch_contents)
        => IsNone(formatted_contents)

\* C4: the patch_segments query fails with the precondition error exactly
\* when base_contents or patch_contents is absent; with base present and
\* patch_contents the empty list it succeeds and returns an empty list.
C4_PatchSegmentsQuery ==
    ret.op = "getPatchSegments" =>
        /\ ret.err \in {"ok", "RuntimeError"}
        /\ ret.err = "RuntimeError" <=> ~BothPresent(base_contents, patch_contents)
        /\ ret.err = "ok" => ret.val = patch_segments
        /\ (~IsNone(base_contents) /\ patch_contents = Some(<<>>))
              => (ret.err = "ok" /\ ret.val = <<>>)

\* the query was made with a non-empty base and an empty, present patch
C4_Witness ==
    /\ ret.op = "getPatchSegments"
    /\ ~IsNone(base_contents) /\ Len(Val(base_contents)) > 0
    /\ patch_contents = Some(<<>>)
    /\ ret.err = "ok"

\* C5: the format_segments query fails with the precondition error exactly
\* when patch_contents or formatted_contents is absent, and hands out the
\* stored list (never a default) exactly when both are present.
C5_FormatSegmentsQuery ==
    ret.op = "getFormatSegments" =>
        /\ ret.err \in {"ok", "RuntimeError"}
        /\ ret.err = "RuntimeError" <=> ~BothPresent(patch_contents, formatted_contents)
        /\ ret.err = "ok" => ret.val = format_segments

\* the query failed although formatted_contents is present: patch_contents
\* is the absent one
C5_Witness ==
    /\ ret.op = "getFormatSegments"
    /\ ret.err = "RuntimeError"
    /\ ~IsNone(formatted_contents)
    /\ IsNone(patch_contents)

\* C6: after setFormattedContents(None), in every state of the File (also
\* with patch_contents absent), formatted_contents reads as absent.
C6_SetNoneStoresAbsent ==
    (ret.op = "setFormattedContents" /\ IsNone(ret.arg)) => IsNone(formatted_contents)

\* the hunks of the base-to-patch diff of the current snapshots
CurrentPatchHunks ==
    IF BothPresent(base_contents, patch_contents)
    THEN get_grouped_opcodes(Val(base_contents), Val(patch_contents))
    ELSE <<>>

\* C7: every Segment of patch_segments has an end, so format_range fails
\* on none of them; hunks that only delete lines of base give no segment
\* (each segment is the after-range of a hunk that adds or replaces lines).
C7_PatchSegmentsHaveEnd ==
    /\ \A i \in DOMAIN patch_segments :
          /\ ~IsNone(patch_segments[i].end)
          /\ format_range(patch_segments[i]).err = "ok"
    /\ \A i \in DOMAIN patch_segments :
          \E h \in DOMAIN CurrentPatchHunks :
             /\ CurrentPatchHunks[h][1] # "delete"
             /\ patch_segments[i].start = CurrentPatchHunks[h][4] + 1
             /\ patch_segments[i].end = Some(CurrentPatchHunks[h][5])

\* patch_contents was set to lines that drop lines of base in one hunk and
\* add lines in another
C7_Witness ==
    /\ ret.op = "setPatchContents"
    /\ \E i \in DOMAIN CurrentPatchHunks : CurrentPatchHunks[i][1] = "delete"
    /\ Len(patch_segments) > 0

(***************************************************************************)
(* Properties of parse_diff_segments (checked under SpecParse).            *)
(***************************************************************************)
Last(seq) == seq[Len(seq)]

\* the end the hunk header gives for <start, count>: count omitted means 1,
\* count 0 means no end, else start + count - 1
ClaimedEnd(start, count) ==
    IF IsNone(count) THEN Some(start)
    ELSE IF Val(count) = 0 THEN None
    ELSE Some(start + Val(count) - 1)

ClaimedTuple(h) == <<h[1], ClaimedEnd(h[1], h[2]), h[3], ClaimedEnd(h[3], h[4])>>

\* the hunk header whose text is line
ShapeOf(line) == CHOOSE h \in HunkShapes : HunkLine(h) = line

\* the after-filename the header line names: its path less one leading segment
NameOf(line) ==
    LET h == CHOOSE g \in HeaderShapes : HeaderLine(g[1], g[2]) = line
    IN  JoinPath(Tail(h[1]))

\* the file a line at position k of the stream belongs to: the name of the
\* last after-file header at or before k, None before the first one
Owner(k) ==
    LET hs == {h \in 1..k : diff[h] \in HeaderLines}
    IN  IF hs = {} THEN None
        ELSE Some(NameOf(diff[CHOOSE h \in hs : \A g \in hs : g <= h]))

\* positions of the hunk headers that belong to file name
HunksOf(name) == {k \in 1..Len(diff) : diff[k] \in HunkLines /\ Owner(k) = Some(name)}

\* the elements of a set of positions in increasing order
RECURSIVE Ascending(_)
Ascending(S) ==
    IF S = {} THEN <<>>
    ELSE LET m == CHOOSE x \in S : \A y \in S : x <= y
         IN  <<m>> \o Ascending(S \ {m})

\* C8: a hunk header attributed to a file is recorded as (a_start, a_end,
\* b_start, b_end) where on each side an omitted count means 1, a count of
\* 0 gives an absent end and otherwise end = start + count - 1.
C8_HunkTuple ==
    (Len(diff) > 0 /\ Last(diff) \in HunkLines /\ ~IsNone(filename)) =>
        /\ Val(filename) \in DOMAIN lines_by_file
        /\ Last(lines_by_file[Val(filename)]) = ClaimedTuple(ShapeOf(Last(diff)))

\* "@@ -10,5 +12,5 @@" was read under a file and gave (10, 14, 12, 16)
C8_Witness ==
    /\ Len(diff) > 0
    /\ Last(diff) = HunkLine(<<10, Some(5), 12, Some(5)>>)
    /\ ~IsNone(filename)
    /\ Last(lines_by_file[Val(filename)]) = <<10, Some(14), 12, Some(16)>>

C10_SkippedAndIgnored ==
    /\ filename = Owner(Len(diff))
    /\ (\A k \in 1..Len(diff) : diff[k] \notin HeaderLines) => lines_by_file = EmptyDict
    /\ \A n \in DOMAIN lines_by_file : Len(lines_by_file[n]) = Cardinality(HunksOf(n))
    /\ (Len(diff) > 0 /\ Last(diff) \in OtherLines) =>
          /\ filename = Owner(Len(diff) - 1)
          /\ \A n \in DOMAIN lines_by_file :
                Len(lines_by_file[n]) =
                    Cardinality({k \in HunksOf(n) : k < Len(diff)})

\* a stream of a hunk header, a line that is neither and then an after-file
\* header was read to its end, and nothing was recorded
C10_Witness ==
    /\ pc = "done"
    /\ Len(diff) = 3
    /\ diff[1] \in HunkLines
    /\ diff[2] \in OtherLines
    /\ diff[3] \in HeaderLines
    /\ lines_by_file = EmptyDict
    /\ ~IsNone(filename)

(***************************************************************************)
(* Properties of Segment and FormatSegment (checked under SpecSeg).        *)
(***************************************************************************)
\* C11: Segment(start, end) fails with the validation error exactly when
\* start < 1, or end is present and (end < 1 or end < start); otherwise the
\* new segment reports the start and end it was given; so every segment
\* that exists has start >= 1 and an end that is absent or >= start.
C11_SegmentValidation ==
    /\ ret.op = "Segment" =>
          LET start == ret.arg[1]
              end   == ret.arg[2]
              bad   == \/ start < 1
                       \/ ~IsNone(end) /\ (Val(end) < 1 \/ Val(end) < start)
          IN  /\ ret.err = (IF bad THEN "ValueError" ELSE "ok")
              /\ ~bad => /\ made[1] = ret.val
                         /\ ~IsFormatSegment(made[1])
                         /\ made[1].start = start
                         /\ made[1].end = end
    /\ \A i \in DOMAIN made :
          /\ made[i].start >= 1
          /\ IsNone(made[i].end) \/ Val(made[i].end) >= made[i].start

\* Segment(2, 1), both numbers valid on their own, was refused
C11_Witness ==
    /\ ret.op = "Segment"
    /\ ret.arg = <<2, Some(1)>>
    /\ ret.err = "ValueError"

\* C12: FormatSegment(start, None, []) fails with the validation error for
\* every start, valid or not; so no FormatSegment that exists is an
\* INSERTION with empty formatted_content.
C12_EmptyInsertionRefused ==
    /\ (ret.op = "FormatSegment" /\ IsNone(ret.arg[2]) /\ ret.arg[3] = <<>>)
          => ret.err = "ValueError"
    /\ \A i \in DOMAIN made :
          (IsFormatSegment(made[i]) /\ reformat_type(made[i]) = "INSERTION")
              => Len(made[i].formatted_content) > 0

\* FormatSegment(1, None, []), with a valid start, was refused
C12_Witness ==
    /\ ret.op = "FormatSegment"
    /\ ret.arg = <<1, None, <<>>>>
    /\ ret.err = "ValueError"

\* the classifications the rule "end absent: INSERTION; end present and no
\* content: DELETION; end present and content: MODIFICATION" gives to o
ClaimedTypes(o) ==
    {k \in {"INSERTION", "DELETION", "MODIFICATION"} :
        \/ k = "INSERTION" /\ IsNone(o.end)
        \/ k = "DELETION" /\ ~IsNone(o.end) /\ o.formatted_content = <<>>
        \/ k = "MODIFICATION" /\ ~IsNone(o.end) /\ o.formatted_content # <<>>}

\* C13: reformat_type never fails and is decided by (end, formatted_content):
\* INSERTION without an end, DELETION with an end and no content,
\* MODIFICATION with an end and content; exactly one of them applies to
\* every FormatSegment that can be constructed.
C13_ReformatType ==
    /\ ret.op = "reformat_type" =>
          /\ ret.err = "ok"
          /\ ClaimedTypes(ret.arg) = {ret.val}
    /\ \A i \in DOMAIN made :
          IsFormatSegment(made[i]) =>
              /\ Cardinality(ClaimedTypes(made[i])) = 1
              /\ reformat_type(made[i]) \in ClaimedTypes(made[i])

\* a FormatSegment with an end and no content was classified DELETION
C13_Witness ==
    /\ ret.op = "reformat_type"
    /\ ~IsNone(ret.arg.end)
    /\ ret.arg.formatted_content = <<>>
    /\ ret.val = "DELETION"

\* text is the decimal numeral of n, without sign or leading zero
IsNumeral(text, n) ==
    /\ Len(text) > 0
    /\ \A q \in DOMAIN text : IsDigit(text[q])
    /\ Len(text) > 1 => text[1] # "0"
    /\ ParseInt(text) = n

\* C14: format_range on a segment with an end returns the text "start:end"
\* of its own start and end; on a segment without an end it fails with the
\* not-a-range error and returns nothing.
C14_FormatRange ==
    ret.op = "format_range" =>
        IF IsNone(ret.arg.end)
        THEN ret.err = "ValueError" /\ ret.val = <<>>
        ELSE /\ ret.err = "ok"
             /\ \E p \in DOMAIN ret.val :
                   /\ ret.val[p] = ":"
                   /\ IsNumeral(SubSeq(ret.val, 1, p - 1), ret.arg.start)
                   /\ IsNumeral(SubSeq(ret.val, p + 1, Len(ret.val)), Val(ret.arg.end))

\* Segment(1, 15).format_range() returned "1:15"
C14_Witness ==
    /\ ret.op = "format_range"
    /\ ret.arg.start = 1
    /\ ret.arg.end = Some(BigLine)
    /\ ret.val = <<"1", ":", "1", "5">>

\* start and end of x and y match (an absent end matches an absent end only)
SameRange(x, y) == x.start = y.start /\ x.end = y.end

\* C15: a comparison in which a plain Segment takes part (with another
\* Segment or with a FormatSegment, in either operand order) gives equal
\* exactly when start and end match, whatever the FormatSegment's content.
C15_SegmentEquality ==
    (ret.op = "eq" /\ (~IsFormatSegment(ret.arg[1]) \/ ~IsFormatSegment(ret.arg[2])))
        => ret.val = SameRange(ret.arg[1], ret.arg[2])

\* C16: two FormatSegments compare equal exactly when their start, their
\* end and their formatted_content match; with the same content and another
\* start or end they are not equal.
C16_FormatSegmentEquality ==
    (ret.op = "eq" /\ IsFormatSegment(ret.arg[1]) /\ IsFormatSegment(ret.arg[2]))
        => ret.val = (/\ SameRange(ret.arg[1], ret.arg[2])
                      /\ ret.arg[1].formatted_content = ret.arg[2].formatted_content)

(***************************************************************************)
(* Properties of the recomputation of format_segments (checked under Spec).*)
(***************************************************************************)
\* the hunks of the patch-to-formatted diff of the current snapshots, as
\* difflib's <<tag, i1, i2, j1, j2>> (0-based, half-open)
CurrentFormatHunks ==
    IF BothPresent(patch_contents, formatted_contents)
    THEN get_grouped_opcodes(Val(patch_contents), Val(formatted_contents))
    ELSE <<>>

\* the range a hunk has on its before side, in 1-based inclusive lines: the
\* lines i1+1..i2, or the point i1 with no end when it holds no line
AStart(h) == IF h[3] = h[2] THEN h[2] ELSE h[2] + 1
AEnd(h) == IF h[3] = h[2] THEN None ELSE Some(h[3])

\* the loop over the hunks got as far as hunk i: every hunk before it gave
\* a segment
Reached(i) == Len(format_segments) >= i - 1

\* formatted_contents is patch_contents less its line k
OneLineRemoved(k) ==
    /\ BothPresent(patch_contents, formatted_contents)
    /\ k \in 1..Len(Val(patch_contents))
    /\ Val(formatted_contents) =
           SubSeq(Val(patch_contents), 1, k - 1)
               \o SubSeq(Val(patch_contents), k + 1, Len(Val(patch_contents)))

\* C17: every hunk of the patch-to-formatted diff without b_end (lines
\* removed only) gives FormatSegment(a_start, a_end, []), a DELETION with
\* empty content, at the hunk's place in format_segments; when
\* formatted_contents is patch_contents less one line, format_segments is
\* exactly that one DELETION.
C17_DeletionHunks ==
    ret.op = "setFormattedContents" =>
        /\ \A i \in DOMAIN CurrentFormatHunks :
              CurrentFormatHunks[i][1] = "delete" =>
                  /\ Len(format_segments) >= i
                  /\ format_segments[i] =
                         FormatSegment(AStart(CurrentFormatHunks[i]),
                                       AEnd(CurrentFormatHunks[i]), <<>>)
                  /\ reformat_type(format_segments[i]) = "DELETION"
        /\ (\E k \in 1..MaxLen : OneLineRemoved(k)) =>
              /\ ret.err = "ok"
              /\ Len(format_segments) = 1
              /\ format_segments[1].formatted_content = <<>>
              /\ reformat_type(format_segments[1]) = "DELETION"
              /\ \E k \in 1..MaxLen :
                    /\ OneLineRemoved(k)
                    /\ format_segments[1].start = k
                    /\ format_segments[1].end = Some(k)

C19_InsertionHunks ==
    ret.op = "setFormattedContents" =>
        \A i \in DOMAIN CurrentFormatHunks :
            (CurrentFormatHunks[i][1] = "insert" /\ Reached(i)) =>
                /\ Len(format_segments) >= i
                /\ format_segments[i].start = AStart(CurrentFormatHunks[i])
                /\ IsNone(format_segments[i].end)
                /\ Len(format_segments[i].formatted_content) > 0
                /\ reformat_type(format_segments[i]) = "INSERTION"

\* C20: when the two snapshots a recomputation compares are present and
\* equal line for line (the diff names no file), the call that recomputed
\* returns normally and leaves the derived collection empty, for
\* patch_segments and for format_segments alike.
C20_NoDifferenceIsNoChange ==
    /\ (/\ ret.op \in {"File", "setBaseContents", "setPatchContents"}
        /\ BothPresent(base_contents, patch_contents)
        /\ base_contents = patch_contents)
          => (ret.err = "ok" /\ patch_segments = <<>>)
    /\ (/\ ret.op = "setFormattedContents"
        /\ BothPresent(patch_contents, formatted_contents)
        /\ patch_contents = formatted_contents)
          => (ret.err = "ok" /\ format_segments = <<>>)

(***************************************************************************)
(* Properties of the setters of File over two calls (checked under Spec).  *)
(***************************************************************************)
\* C25: with no snapshot changed in between, two format_segments queries in
\* a row give the same result, and setFormattedContents called again with
\* the value formatted_contents holds (right after the constructor or after
\* setFormattedContents) leaves formatted_contents and format_segments as
\* they were.
C25_Idempotent ==
    [][ /\ (/\ ret.op \in {"File", "setFormattedContents"}
            /\ ret'.op = "setFormattedContents"
            /\ ret'.arg = formatted_contents)
              => (/\ formatted_contents' = formatted_contents
                  /\ format_segments' = format_segments)
        /\ (ret.op = "getFormatSegments" /\ ret'.op = "getFormatSegments")
              => (ret'.err = ret.err /\ ret'.val = ret.val)
      ]_vars

\* setFormattedContents was called with the value that is stored, and there
\* are segments to keep
C25_Witness ==
    /\ ret.op = "setFormattedContents"
    /\ ~IsNone(ret.arg)
    /\ ret.arg = formatted_contents
    /\ ret.err = "ok"
    /\ Len(format_segments) > 0

\* C26: setBaseContents and setPatchContents leave formatted_contents and
\* the stored format_segments as they were; and after patch_contents was
\* replaced by a present value (the empty list included) with
\* formatted_contents present, the format_segments query succeeds and
\* returns those segments.
C26_SettersKeepFormatted ==
    [][ /\ ret'.op \in {"setBaseContents", "setPatchContents"}
              => (/\ formatted_contents' = formatted_contents
                  /\ format_segments' = format_segments)
        /\ (/\ ret.op = "setPatchContents"
            /\ ~IsNone(ret.arg)
            /\ ~IsNone(formatted_contents)
            /\ ret'.op = "getFormatSegments")
              => (ret'.err = "ok" /\ ret'.val = format_segments)
      ]_vars

\* patch_contents was replaced by the empty list and the segments computed
\* from the old patch_contents are still there
C26_Witness ==
    /\ ret.op = "setPatchContents"
    /\ ret.arg = Some(<<>>)
    /\ patch_contents = Some(<<>>)
    /\ ~IsNone(formatted_contents)
    /\ Len(format_segments) > 0
    /\ \E i \in DOMAIN format_segments : ~IsNone(format_segments[i].end)

\* C27: formatted_contents is never both present and equal, line for line,
\* to patch_contents.
C27_FormattedNeverEqualsPatch ==
    ~(BothPresent(patch_contents, formatted_contents)
        /\ patch_contents = formatted_contents)

\* C28: setFormattedContents given a present value, with patch_contents
\* present, raises no validation error (also when lines are added before
\* the first line of patch_contents, or patch_contents is empty), and every
\* FormatSegment it leaves has start >= 1.
C28_NoValidationError ==
    (ret.op = "setFormattedContents" /\ ~IsNone(ret.arg) /\ ~IsNone(patch_contents)) =>
        /\ ret.err # "ValueError"
        /\ \A i \in DOMAIN format_segments : format_segments[i].start >= 1

\* the last line seg touches in the text it applies to
Upper(seg) == IF IsNone(seg.end) THEN seg.start ELSE Val(seg.end)

\* lines with seg applied: the content put after line start for an
\* INSERTION, else in the place of the lines start..end
ApplySegment(lines, seg) ==
    IF reformat_type(seg) = "INSERTION"
    THEN SubSeq(lines, 1, seg.start) \o seg.formatted_content
             \o SubSeq(lines, seg.start + 1, Len(lines))
    ELSE SubSeq(lines, 1, seg.start - 1) \o seg.formatted_content
             \o SubSeq(lines, Val(seg.end) + 1, Len(lines))

\* lines with all of segs applied, the last one first so that the line
\* numbers of the others stay those of the original text
RECURSIVE ApplyAll(_, _)
ApplyAll(lines, segs) ==
    IF segs = <<>> THEN lines
    ELSE ApplyAll(ApplySegment(lines, segs[Len(segs)]), SubSeq(segs, 1, Len(segs) - 1))

\* segs in strictly increasing order without overlap, within 1..n
InOrderWithin(segs, n) ==
    /\ \A i \in DOMAIN segs : segs[i].start >= 1 /\ Upper(segs[i]) <= n
    /\ \A i \in DOMAIN segs : \A j \in DOMAIN segs :
          i < j => Upper(segs[i]) < segs[j].start

\* C30: right after setFormattedContents, with patch_contents and
\* formatted_contents present and different, the format segments are in
\* strictly increasing order without overlap within 1..len(patch_contents)
\* and applying them to patch_contents gives formatted_contents.
C30_RoundTrip ==
    (/\ ret.op = "setFormattedContents"
     /\ BothPresent(patch_contents, formatted_contents)
     /\ patch_contents # formatted_contents) =>
        /\ InOrderWithin(format_segments, Len(Val(patch_contents)))
        /\ ApplyAll(Val(patch_contents), format_segments) = Val(formatted_contents)

(***************************************************************************)
(* Properties of the patch segments of a new File (checked under SpecDiff).*)
(***************************************************************************)
\* the segments the hunks give: Segment(b_start, b_end), in patch lines,
\* for each hunk that has lines on its after side, in the order of the diff
RECURSIVE SegmentsOfHunks(_)
SegmentsOfHunks(hunks) ==
    IF hunks = <<>> THEN <<>>
    ELSE (IF hunks[1][5] > hunks[1][4]
            THEN <<Segment(hunks[1][4] + 1, Some(hunks[1][5]))>> ELSE <<>>)
         \o SegmentsOfHunks(Tail(hunks))

\* the lines of the patch the segments cover
CoveredLines(segs) ==
    UNION {segs[i].start .. Val(segs[i].end) : i \in DOMAIN segs}

\* patch is base, of three lines, with line 2 replaced and a line appended
ReplacesSecondAppendsFourth(base, patch) ==
    /\ Len(base) = 3
    /\ Len(patch) = 4
    /\ patch[1] = base[1]
    /\ patch[2] # base[2]
    /\ patch[3] = base[3]

\* C24: with base_contents and patch_contents present, patch_segments is
\* the list, in diff order, of Segment(b_start, b_end) for the hunks of the
\* base-to-patch diff that have a b_end; for a base of three lines whose
\* patch replaces line 2 and appends a 4th line, the segments cover the
\* patch lines 2 and 4 and no other.
C24_PatchSegmentsAreTheHunks ==
    (ret.op # "args" /\ BothPresent(base_contents, patch_contents)) =>
        /\ patch_segments = SegmentsOfHunks(CurrentPatchHunks)
        /\ (/\ ReplacesSecondAppendsFourth(Val(base_contents), Val(patch_contents))
            /\ Val(patch_contents)[2] # Val(base_contents)[1]
            /\ Val(patch_contents)[4] # Val(base_contents)[3])
              => CoveredLines(patch_segments) = {2, 4}

(***************************************************************************)
(* Properties of a run of reformat_change (checked under SpecBatch).       *)
(***************************************************************************)
\* C21: a failure of the formatter on one file does not end the run: the
\* later files are still processed and the review is still assembled.
C21_FormatterFailureDoesNotAbort ==
    run.by = "run_clang_format" => run.pc # "raised"

\* the status of an entry, "M" where the server leaves it out
StatusOf(e) == IF IsNone(e.status) THEN "M" ELSE Val(e.status)

\* the urls under which content of the entry e can be asked for
UrlsOf(e) ==
    {ContentUrl(e.filename)} \cup
    (IF IsNone(e.old_path) THEN {} ELSE {ContentUrl(Val(e.old_path))})

Sent(request) == \E k \in DOMAIN requests : requests[k] = request
BaseSide == Some("parent=1")

\* the comment the claimed mapping gives for a FormatSegment
AnchoredAt(c, first, last) == c.range = CommentRange(first, 0, last, 0)
Carries(message, text) ==
    \E o \in 1..(Len(message) - Len(text) + 1) :
        SubSeq(message, o, o + Len(text) - 1) = text
LineTokens == UNION {{l[k] : k \in DOMAIN l} : l \in Lines}
ClaimedComment(c, seg) ==
    /\ "INSERTION" \in ClaimedTypes(seg) =>
          /\ AnchoredAt(c, seg.start, seg.start)
          /\ Carries(c.message, Join(seg.formatted_content))
    /\ "MODIFICATION" \in ClaimedTypes(seg) =>
          /\ AnchoredAt(c, seg.start, Val(seg.end))
          /\ Carries(c.message, Join(seg.formatted_content))
    /\ "DELETION" \in ClaimedTypes(seg) =>
          /\ AnchoredAt(c, seg.start, Val(seg.end))
          /\ \A k \in DOMAIN c.message : c.message[k] \notin LineTokens

\* the comments the review holds for the file f
CommentsOf(f) ==
    IF f.filename \in DOMAIN Val(review_input).comments
    THEN Val(review_input).comments[f.filename] ELSE <<>>

\* C22: the review holds one comment for each FormatSegment of every file
\* with formatted content, in the order of the segments, and none for any
\* other file: an INSERTION is anchored at (start, start) and carries the
\* content to insert, a MODIFICATION at (start, end) with the replacement
\* text, a DELETION at (start, end) with a message without text of the file;
\* the message of the review says that no changes are suggested exactly
\* when no comment was made.
C22_OneCommentPerFormatSegment ==
    /\ run.by # "format_segments"
    /\ run.pc = "done" =>
          /\ ~IsNone(review_input)
          /\ \A i \in DOMAIN files :
                IF IsNone(files[i].formatted_contents) THEN CommentsOf(files[i]) = <<>>
                ELSE /\ Len(CommentsOf(files[i])) = Len(files[i].format_segments)
                     /\ \A k \in DOMAIN files[i].format_segments :
                           ClaimedComment(CommentsOf(files[i])[k],
                                          files[i].format_segments[k])
          /\ DOMAIN Val(review_input).comments \subseteq
                {files[i].filename : i \in DOMAIN files}
          /\ (Val(review_input).message = NoChangesMessage) <=>
                (\A i \in DOMAIN files : CommentsOf(files[i]) = <<>>)

\* a review with the comment of an insertion for one file and the comment
\* of a deletion for another
C22_Witness ==
    /\ run.pc = "done"
    /\ \E i, j \in DOMAIN files :
          /\ i # j
          /\ Len(CommentsOf(files[i])) > 0
          /\ Len(CommentsOf(files[j])) > 0
          /\ IsNone(files[i].format_segments[1].end)
          /\ files[j].format_segments[1].formatted_content = <<>>

\* C23: get_change builds one File for each entry, in the order of the
\* server; patch_contents is absent exactly for status D and base_contents
\* exactly for status A; the base of an added file and the patch of a
\* deleted file are never asked for; a renamed or copied file has its base
\* asked for under the old path and its patch under the new one; with an
\* entry of an unsupported status the call raises and has asked for no
\* content of that file.
C23_GetChange ==
    run.pc # "fetch" =>
        /\ (run.by # "get_change") <=>
              (\A k \in DOMAIN change_dict : StatusOf(change_dict[k]) \in SupportedStatuses)
        /\ \A k \in DOMAIN change_dict :
              StatusOf(change_dict[k]) \notin SupportedStatuses =>
                  \A r \in DOMAIN requests : requests[r].url \notin UrlsOf(change_dict[k])
        /\ run.by # "get_change" =>
              /\ Len(files) = Len(change_dict)
              /\ \A k \in DOMAIN change_dict :
                    LET e == change_dict[k]
                        f == files[k]
                    IN  /\ f.filename = e.filename
                        /\ IsNone(f.patch_contents) <=> StatusOf(e) = "D"
                        /\ IsNone(f.base_contents) <=> StatusOf(e) = "A"
                        /\ StatusOf(e) = "A" =>
                              \A r \in DOMAIN requests :
                                  requests[r].url \in UrlsOf(e) => requests[r].params # BaseSide
                        /\ StatusOf(e) = "D" =>
                              \A r \in DOMAIN requests :
                                  requests[r].url \in UrlsOf(e) => requests[r].params = BaseSide
                        /\ StatusOf(e) \in {"R", "C"} =>
                              /\ Sent(Request(ContentUrl(Val(e.old_path)), BaseSide))
                              /\ Sent(Request(ContentUrl(e.filename), None))
                              /\ ~Sent(Request(ContentUrl(e.filename), BaseSide))
                              /\ ~Sent(Request(ContentUrl(Val(e.old_path)), None))

\* a change with a renamed file and an added file was fetched
C23_Witness ==
    /\ run.pc = "loop"
    /\ Len(files) = 2
    /\ change_dict[1].status = Some("R")
    /\ change_dict[2].status = Some("A")
    /\ Len(requests) = 3

\* C29: reformat_change does not ask a File without base_contents or
\* patch_contents for its patch_segments: a change with an added file of a
\* formattable extension raises no precondition error.
C29_NoQueryWithoutBase ==
    ~(run.pc = "raised" /\ run.by = "patch_segments")

====
